---- MODULE Spec2Model ----
(***************************************************************************)
(* Model of o2::tpc::DeadChannelMapCreator                                 *)
(* (Detectors/TPC/base/src/DeadChannelMapCreator.cxx): the per-source      *)
(* caches (FEE config, IDC pad status), the mask extraction of the IDC     *)
(* dead-channel map and the composition of the final dead-channel map;     *)
(* of o2::tpc::CalibdEdxDevice                                             *)
(* (Detectors/TPC/workflow/src/CalibdEdxSpec.cxx), of                      *)
(* o2::eventgen::GeneratorFileOrCmd (Generators/src/GeneratorFileOrCmd.cxx)*)
(* of o2::tof::Digit and o2::tof::ReadoutWindowData                        *)
(* (Detectors/TOF/base/include/TOFBase/Digit.h) and of                     *)
(* o2::gpu::SplineUtil (GPU/TPCFastTransformation/SplineUtil.h).           *)
(***************************************************************************)
EXTENDS Integers, Naturals, Sequences, FiniteSets, TLC

VARIABLES
  mFEEConfig,          \* std::unique_ptr<FEEConfig>: NoObject or the held config
  mPadStatusMap,       \* std::unique_ptr<CalDetFlag_t>: NoObject or the held pad flags
  mObjectValidity,     \* CDBType -> ValidityRange {startvalidity, endvalidity}
  mDeadChannelMapFEE,  \* CalDet<bool>: dead map from the FEE config
  mDeadChannelMapIDC,  \* CalDet<bool>: dead map from the IDC pad status flags
  mDeadChannelMap,     \* CalDet<bool>: the final (composed) dead-channel map
  mSources,            \* SourcesDeadMap: the set of sources used in the composition
  pc,                  \* position inside load(): "idle", "fee", "idc", "fin", and
                       \* "finIDC", "finFEE" inside finalizeDeadChannelMap()
  timeStamp,           \* the resolved time stamp of the load() in progress
  last,                \* history: the last operation and what its steps did
  thrown,              \* history: has an operation ended by an exception so far
  filled,              \* history: the sources whose dead map has been set, by a fetch
                       \* that returned an object or by a call of the setter
  reader,              \* a thread that reads mDeadChannelMap while load() runs
  noted,               \* history: <<range>> when an observer has noted the range an
                       \* IDC fetch that returned an object has stored and no IDC
                       \* fetch has failed since, else <<>>
  arg,                 \* history: <<padStatusMap, mask>> when the last operation was
                       \* setDeadChannelMapIDCPadStatus(padStatusMap, mask), else <<>>
  \* CalibdEdxDevice
  mRunNumber,          \* uint64_t: processed run number
  mTimeStampStart,     \* uint64_t: time stamp of the first TF, for the CCDB output
  mDisableTimeGain,    \* bool: GPU_global.dEdxDisableResidualGain
  mCustomdEdxFileName, \* std::string: GPU_global.dEdxCorrFile
  mCalib,              \* mCalib->getCalibrationInput(); "null" before init()
  sent,                \* the CcdbObjectInfo of the last sendOutput(), <<>> before
  calibLast,           \* history: the last call made on the device
  \* GeneratorFileOrCmd
  mCmdPid,             \* pid_t: the child recorded as running, -1 when none
  mFileNames,          \* std::list<std::string>
  mTemporary,          \* std::string: the temporary file, "" when none
  children,            \* the children forked so far: pid -> "running", "killed"
                       \* (SIGKILL sent to its group) or "reaped" (killed and waited)
  genLast,             \* history: the last call made on the generator
  \* TOF Digit and ReadoutWindowData
  keys,                \* history: the last two calls of Digit::getOrderingKey, newest first
  mNdiaCrate,          \* int[Geo::kNCrate]
  added,               \* history: per crate, the addedDiagnostic() calls since the last
                       \* setEmptyCrate() or since construction
  emptied,             \* history: per crate, has setEmptyCrate() been called
  \* SplineUtil
  splineLast           \* history: the last call of SplineUtil::getSpec

\* the members of the DeadChannelMapCreator and their history
dcmVars == <<mFEEConfig, mPadStatusMap, mObjectValidity, mDeadChannelMapFEE,
             mDeadChannelMapIDC, mDeadChannelMap, mSources, pc, timeStamp, last, thrown,
             filled, reader, noted, arg>>

\* the members of the CalibdEdxDevice and their history
calibVars == <<mRunNumber, mTimeStampStart, mDisableTimeGain, mCustomdEdxFileName,
               mCalib, sent, calibLast>>

\* the members of the GeneratorFileOrCmd, its children and their history
genVars == <<mCmdPid, mFileNames, mTemporary, children, genLast>>

\* the ordering keys computed and the members of the ReadoutWindowData
tofVars == <<keys, mNdiaCrate, added, emptied>>

\* the call of SplineUtil::getSpec made last
splineVars == <<splineLast>>

vars == <<dcmVars, calibVars, genVars, tofVars, splineVars>>

\* what the operations of one object leave alone: the other objects
outsideDCM == <<calibVars, genVars, tofVars, splineVars>>
outsideCalib == <<dcmVars, genVars, tofVars, splineVars>>
outsideGen == <<dcmVars, calibVars, tofVars, splineVars>>
outsideTOF == <<dcmVars, calibVars, genVars, splineVars>>
outsideSpline == <<dcmVars, calibVars, genVars, tofVars>>

----------------------------------------------------------------------------
(* Bounds of the model *)

\* time stamps are 0, TimeUnit, ..., MaxTime * TimeUnit
MaxTime == 1
\* run numbers 1..NumRuns can be given to load() instead of a time stamp
NumRuns == 1
\* CalibdEdxDevice::run() is called with timeslices 0..MaxSlice
MaxSlice == 1
\* and with time stamps 0..MaxStart of the time frame
MaxStart == 2
\* GeneratorFileOrCmd::executeCmdLine() forks at most MaxChildren children
MaxChildren == 3
\* and mFileNames holds at most MaxNames names
MaxNames == 2
\* Digit::getOrderingKey: the key has KeyBits bits (64 in ULong64_t) of which the
\* lowest ChannelBits (18 in the source) are left to the channel
KeyBits == 5
ChannelBits == 2
\* ReadoutWindowData: crates 0..NumCrates-1 (Geo::kNCrate of them in the source), at
\* most MaxDiagnostics addedDiagnostic() calls in a row on one crate
NumCrates == 3
MaxDiagnostics == 3
\* SplineUtil::getSpec is called with dimensions -MaxDim..MaxDim
MaxDim == 5

(* Program constants *)

\* "For safety add 1min": timeStamp += 60000
TimeUnit == 60000

----------------------------------------------------------------------------
(* Topology (o2::tpc::Mapper): ROCs, rows per ROC, pads per row *)

NumROCs == 2

getNumberOfRowsROC(roc) == 1

getNumberOfPadsInRowROC(roc, row) == 1

ROCs == 0 .. (NumROCs - 1)

\* every pad address <<roc, row, pad>> of the topology
Pads ==
  UNION {UNION {{<<roc, row, pad>> : pad \in 0 .. (getNumberOfPadsInRowROC(roc, row) - 1)} :
                row \in 0 .. (getNumberOfRowsROC(roc) - 1)} : roc \in ROCs}

\* CalDet<bool> and CalDet<PadFlags> values
BoolMaps == [Pads -> BOOLEAN]

\* PadFlags restricted to its two lowest bits: flagGoodPad = 1, flagDeadPad = 2
FlagBits == 2

RECURSIVE Pow2(_)
Pow2(n) == IF n = 0 THEN 1 ELSE 2 * Pow2(n - 1)

PadFlagValues == 0 .. (Pow2(FlagBits) - 1)

FlagMaps == [Pads -> PadFlagValues]

\* PadFlags::flagAllNoneGood: every flag bit except flagGoodPad
flagAllNoneGood == Pow2(FlagBits) - 2

AllFalse == [p \in Pads |-> FALSE]

\* the bitwise & of two underlying flag values
RECURSIVE BitAnd(_, _)
BitAnd(a, b) ==
  IF a = 0 \/ b = 0 THEN 0
  ELSE (a % 2) * (b % 2) + 2 * BitAnd(a \div 2, b \div 2)

----------------------------------------------------------------------------
(* CalDet<bool> arithmetic *)

\* CalDet<bool>::operator=(bool): every pad set to the value
CalDetAssign(value) == [p \in Pads |-> value]

\* CalDet<bool>::operator+=(other): pad by pad a += b on bool, true when either is
CalDetPlusEq(a, b) == [p \in Pads |-> a[p] \/ b[p]]

----------------------------------------------------------------------------
(* Source selection: enum class SourcesDeadMap, a bit mask *)

SourceNone == 0
IDCPadStatus == 1
FEEConfig == 2
SourceAll == 3

SourceSets == {SourceNone, IDCPadStatus, FEEConfig, SourceAll}

\* useSource(s): (mSources & s) == s
useSource(sources, s) == BitAnd(sources, s) = s

----------------------------------------------------------------------------
(* setDeadChannelMapIDCPadStatus: the three nested loops over ROC, row, pad *)

RECURSIVE PadLoop(_, _, _, _, _, _)
PadLoop(map, padStatusMap, mask, roc, iRow, iPad) ==
  IF iPad >= getNumberOfPadsInRowROC(roc, iRow) THEN map
  ELSE PadLoop(IF BitAnd(padStatusMap[<<roc, iRow, iPad>>], mask) # 0
                 THEN [map EXCEPT ![<<roc, iRow, iPad>>] = TRUE]
                 ELSE map,
               padStatusMap, mask, roc, iRow, iPad + 1)

RECURSIVE RowLoop(_, _, _, _, _)
RowLoop(map, padStatusMap, mask, roc, iRow) ==
  IF iRow >= getNumberOfRowsROC(roc) THEN map
  ELSE RowLoop(PadLoop(map, padStatusMap, mask, roc, iRow, 0),
               padStatusMap, mask, roc, iRow + 1)

RECURSIVE ROCLoop(_, _, _, _)
ROCLoop(map, padStatusMap, mask, iROC) ==
  IF iROC >= NumROCs THEN map
  ELSE ROCLoop(RowLoop(map, padStatusMap, mask, iROC, 0), padStatusMap, mask, iROC + 1)

\* mutant of setDeadChannelMapIDCPadStatus: without "mDeadChannelMapIDC = false"
setDeadChannelMapIDCPadStatusNoReset(deadMapIDC, padStatusMap, mask) ==
  ROCLoop(deadMapIDC, padStatusMap, mask, 0)

\* the value of mDeadChannelMapIDC after setDeadChannelMapIDCPadStatus(padStatusMap, mask)
\* when it held deadMapIDC before
setDeadChannelMapIDCPadStatus(deadMapIDC, padStatusMap, mask) ==
  ROCLoop(CalDetAssign(FALSE), padStatusMap, mask, 0)

----------------------------------------------------------------------------
(* finalizeDeadChannelMap *)

\* mutant of finalizeDeadChannelMap: without "mDeadChannelMap = false"
finalizeDeadChannelMapNoReset(deadMap, sources, deadMapIDC, deadMapFEE) ==
  LET withIDC == IF useSource(sources, IDCPadStatus)
                   THEN CalDetPlusEq(deadMap, deadMapIDC) ELSE deadMap
  IN IF useSource(sources, FEEConfig) THEN CalDetPlusEq(withIDC, deadMapFEE) ELSE withIDC

\* mutant of finalizeDeadChannelMap: "mDeadChannelMap = mDeadChannelMapFEE" for "+="
finalizeDeadChannelMapAssignsFEE(deadMap, sources, deadMapIDC, deadMapFEE) ==
  LET reset == CalDetAssign(FALSE)
      withIDC == IF useSource(sources, IDCPadStatus)
                   THEN CalDetPlusEq(reset, deadMapIDC) ELSE reset
  IN IF useSource(sources, FEEConfig) THEN deadMapFEE ELSE withIDC

\* mutant of finalizeDeadChannelMap: "mDeadChannelMap = false" inverts the map instead
finalizeDeadChannelMapInverts(deadMap, sources, deadMapIDC, deadMapFEE) ==
  LET reset == [p \in Pads |-> ~deadMap[p]]
      withIDC == IF useSource(sources, IDCPadStatus)
                   THEN CalDetPlusEq(reset, deadMapIDC) ELSE reset
  IN IF useSource(sources, FEEConfig) THEN CalDetPlusEq(withIDC, deadMapFEE) ELSE withIDC

\* mutant of finalizeDeadChannelMap: the reset is made only when a source is in use
finalizeDeadChannelMapKeepsIfNone(deadMap, sources, deadMapIDC, deadMapFEE) ==
  LET reset == IF sources = SourceNone THEN deadMap ELSE CalDetAssign(FALSE)
      withIDC == IF useSource(sources, IDCPadStatus)
                   THEN CalDetPlusEq(reset, deadMapIDC) ELSE reset
  IN IF useSource(sources, FEEConfig) THEN CalDetPlusEq(withIDC, deadMapFEE) ELSE withIDC

\* mutant of finalizeDeadChannelMap: both maps are added whenever any source is in use
finalizeDeadChannelMapAddsBoth(deadMap, sources, deadMapIDC, deadMapFEE) ==
  LET reset == CalDetAssign(FALSE)
  IN IF sources = SourceNone THEN reset
     ELSE CalDetPlusEq(CalDetPlusEq(reset, deadMapIDC), deadMapFEE)

\* the value of mDeadChannelMap after finalizeDeadChannelMap() when it held deadMap before
finalizeDeadChannelMap(deadMap, sources, deadMapIDC, deadMapFEE) ==
  LET reset == CalDetAssign(FALSE)
      withIDC == IF useSource(sources, IDCPadStatus)
                   THEN CalDetPlusEq(reset, deadMapIDC) ELSE reset
  IN IF useSource(sources, FEEConfig) THEN CalDetPlusEq(withIDC, deadMapFEE) ELSE withIDC

\* the three statements of finalizeDeadChannelMap(), one by one, as a thread that reads
\* mDeadChannelMap meanwhile meets them
\* mDeadChannelMap = false;
finalizeReset(deadMap) == CalDetAssign(FALSE)

\* if (useSource(SourcesDeadMap::IDCPadStatus)) { mDeadChannelMap += mDeadChannelMapIDC; }
finalizeAddIDC(deadMap, sources, deadMapIDC) ==
  IF useSource(sources, IDCPadStatus) THEN CalDetPlusEq(deadMap, deadMapIDC) ELSE deadMap

\* if (useSource(SourcesDeadMap::FEEConfig)) { mDeadChannelMap += mDeadChannelMapFEE; }
finalizeAddFEE(deadMap, sources, deadMapFEE) ==
  IF useSource(sources, FEEConfig) THEN CalDetPlusEq(deadMap, deadMapFEE) ELSE deadMap

----------------------------------------------------------------------------
(* Time stamps, validity ranges, the CCDB *)

Times == {k * TimeUnit : k \in 0 .. MaxTime}

\* the values Valid-From / Valid-Until of a stored object can take
ValidityTimes == {k * TimeUnit : k \in 0 .. (MaxTime + 1)}

RunNumbers == 1 .. NumRuns

\* getTimeStamp(timeStampOrRun): a run number is resolved to a time stamp of the run,
\* a time stamp is returned as it is
getTimeStamp(timeStampOrRun) ==
  IF timeStampOrRun \in RunNumbers THEN timeStampOrRun * TimeUnit ELSE timeStampOrRun

\* the keys of mObjectValidity that the code uses
CDBTypes == {"ConfigRunInfo", "CalIDCPadStatusMapA"}

\* ValidityRange{}: a range no time stamp is in
DefaultValidity == [startvalidity |-> 0, endvalidity |-> -1]

\* ValidityRange::isValid(ts)
isValid(range, ts) == range.startvalidity <= ts /\ ts < range.endvalidity

\* a null pointer: no object held, no object returned; an object x is held as <<x>>
NoObject == <<>>

Objects(values) == {NoObject} \cup {<<v>> : v \in values}

\* the FEE configs the CCDB holds, each given by its getDeadChannelMap()
StoredFEEConfigs == {m \in BoolMaps : Cardinality({p \in Pads : m[p]}) = 1}

\* the pad status maps the CCDB holds: one pad flagDeadPad (2), the others flagGoodPad (1)
StoredPadFlags == {m \in [Pads -> {1, 2}] : Cardinality({p \in Pads : m[p] = 2}) = 1}

\* What retrieveFromTFileAny<FEEConfig> gives back: the object (its dead-channel map)
\* or nullptr, and which of the meta data keys the code reads are in the header map:
\* "Tag" (tag), and "Valid-From", "ETag", "Last-Modified" (info).
FEEResponses == [obj : Objects(StoredFEEConfigs), tag : BOOLEAN, info : BOOLEAN]

\* What retrieveFromTFileAny<CalDet<PadFlags>> gives back: the object or nullptr, and
\* the header map: without "Valid-From" (none), with "Valid-From" only (from), or with
\* "Valid-From" and "Valid-Until" (full).
IDCResponses ==
  {[obj |-> o, meta |-> "none", from |-> 0, until |-> 0] : o \in Objects(StoredPadFlags)}
  \cup {[obj |-> o, meta |-> "from", from |-> f, until |-> 0] :
          o \in Objects(StoredPadFlags), f \in ValidityTimes}
  \cup {[obj |-> r[1], meta |-> "full", from |-> r[2], until |-> r[3]] :
          r \in {x \in Objects(StoredPadFlags) \X ValidityTimes \X ValidityTimes :
                   x[2] < x[3]}}

\* the response recorded when the CCDB is not asked
NoResponse == [obj |-> NoObject, meta |-> "none", from |-> 0, until |-> 0]

\* history of one refresh step of load():
\*   "none"       the validity range covered the time stamp, the CCDB was not asked
\*   "ok"         an object came back and was taken over
\*   "nullLogged" no object came back, an error was logged, the step returned
\*   "nullThrew"  no object came back and a meta.at(...) threw
\*   "objThrew"   an object came back and a meta.at(...) threw
StepResults == {"none", "ok", "nullLogged", "nullThrew", "objThrew"}

Threw(result) == result \in {"nullThrew", "objThrew"}

Fetched(result) == result # "none"

NoObjectReturned(result) == result \in {"nullLogged", "nullThrew"}

----------------------------------------------------------------------------
(* loadFEEConfigViaRunInfoTS / loadFEEConfig *)

\* mFEEConfig.reset(retrieveFromTFileAny(...)): the pointer held afterwards
FEEConfigReset(config, obj) == obj

\* mutant of FEENotLoaded: without a config every channel is marked dead
FEENotLoadedAllDead(config, deadMapFEE) ==
  [config |-> config, deadMap |-> CalDetAssign(TRUE), result |-> "nullLogged"]

\* if (!mFEEConfig) { LOGP(error, ...); return; }
FEENotLoaded(config, deadMapFEE) ==
  [config |-> config, deadMap |-> deadMapFEE, result |-> "nullLogged"]

\* mDeadChannelMapFEE = mFEEConfig->getDeadChannelMap();
FEELoaded(config, deadMapFEE) ==
  [config |-> config, deadMap |-> config[1], result |-> "ok"]

\* loadFEEConfig(timeStamp), given the CCDB's response: the new mFEEConfig and
\* mDeadChannelMapFEE. meta.at("Tag") throws std::out_of_range when the key is absent,
\* after mFEEConfig.reset(...); so do the meta.at(...) of the LOGP(info, ...).
loadFEEConfig(config, deadMapFEE, resp) ==
  LET held == FEEConfigReset(config, resp.obj)
  IN IF ~resp.tag
       THEN [config |-> held, deadMap |-> deadMapFEE,
             result |-> IF held = NoObject THEN "nullThrew" ELSE "objThrew"]
     ELSE IF held = NoObject THEN FEENotLoaded(held, deadMapFEE)
     ELSE IF ~resp.info
       THEN [config |-> held, deadMap |-> deadMapFEE, result |-> "objThrew"]
     ELSE FEELoaded(held, deadMapFEE)

\* does loadFEEConfigViaRunInfoTS(ts) ask the CCDB: timeStamp += 60000, then isValid
FEENeedsFetch(validity, ts) == ~isValid(validity["ConfigRunInfo"], ts + TimeUnit)

loadFEEConfigViaRunInfoTS(validity, config, deadMapFEE, ts, resp) ==
  IF ~FEENeedsFetch(validity, ts)
    THEN [config |-> config, deadMap |-> deadMapFEE, result |-> "none"]
    ELSE loadFEEConfig(config, deadMapFEE, resp)

----------------------------------------------------------------------------
(* loadIDCPadFlags *)

\* mutant of IDCNeedsFetch: the CCDB is asked whatever the stored range is
IDCNeedsFetchAlways(validity, ts) == TRUE

\* mutant of IDCNeedsFetch: the end of the range is taken as covered
IDCNeedsFetchClosedEnd(validity, ts) ==
  ~(/\ validity["CalIDCPadStatusMapA"].startvalidity <= ts
    /\ ts <= validity["CalIDCPadStatusMapA"].endvalidity)

\* does loadIDCPadFlags(ts) ask the CCDB
IDCNeedsFetch(validity, ts) == ~isValid(validity["CalIDCPadStatusMapA"], ts)

\* mutant of IDCNotLoaded: the dead map is reset before the pointer is tested
IDCNotLoadedClearsMap(validity, padStatus, deadMapIDC) ==
  [validity |-> validity, padStatus |-> padStatus, deadMap |-> CalDetAssign(FALSE),
   result |-> "nullLogged"]

\* if (!status) { LOGP(error, ...); return; }
IDCNotLoaded(validity, padStatus, deadMapIDC) ==
  [validity |-> validity, padStatus |-> padStatus, deadMap |-> deadMapIDC,
   result |-> "nullLogged"]

\* setDeadChannelMapIDCPadStatus(*status); mPadStatusMap.reset(status);
IDCLoaded(validity, deadMapIDC, status) ==
  [validity |-> validity, padStatus |-> status,
   deadMap |-> setDeadChannelMapIDCPadStatus(deadMapIDC, status[1], flagAllNoneGood),
   result |-> "ok"]

\* loadIDCPadFlags(ts), given the CCDB's response: the new mObjectValidity,
\* mPadStatusMap and mDeadChannelMapIDC. The validity is written from the meta data
\* before the returned pointer is tested; a missing key throws at its meta.at(...).
loadIDCPadFlags(validity, padStatus, deadMapIDC, ts, resp) ==
  IF ~IDCNeedsFetch(validity, ts)
    THEN [validity |-> validity, padStatus |-> padStatus, deadMap |-> deadMapIDC,
          result |-> "none"]
  ELSE IF resp.meta = "none"
    THEN [validity |-> validity, padStatus |-> padStatus, deadMap |-> deadMapIDC,
          result |-> IF resp.obj = NoObject THEN "nullThrew" ELSE "objThrew"]
  ELSE IF resp.meta = "from"
    THEN [validity |-> [validity EXCEPT !["CalIDCPadStatusMapA"].startvalidity = resp.from],
          padStatus |-> padStatus, deadMap |-> deadMapIDC,
          result |-> IF resp.obj = NoObject THEN "nullThrew" ELSE "objThrew"]
  ELSE LET written == [validity EXCEPT !["CalIDCPadStatusMapA"] =
                         [startvalidity |-> resp.from, endvalidity |-> resp.until]]
       IN IF resp.obj = NoObject
            THEN IDCNotLoaded(written, padStatus, deadMapIDC)
            ELSE IDCLoaded(written, deadMapIDC, resp.obj)

----------------------------------------------------------------------------
(* The operations *)

\* the value of last when operation op ("load", "finalize", "other") is entered:
\*   fee, idc      what the two refresh steps of load() did
\*   hadFEE/IDC    did the source hold data when the operation was entered
\*   composed      was mDeadChannelMap the composition of the maps at the entry
\*   changedX      has the operation changed map X so far
\*   again         finalizeDeadChannelMap() was also the operation before this one
\*   injected      <<m>> when load() was entered right after a call of the setter
\*                 that left m in mDeadChannelMapIDC, else <<>>
Called(op) == [op |-> op, fee |-> "none", idc |-> "none",
               hadFEE |-> FALSE, hadIDC |-> FALSE, composed |-> FALSE,
               changedFEE |-> FALSE, changedIDC |-> FALSE, changedDead |-> FALSE,
               again |-> FALSE, injected |-> <<>>]

\* no load() in progress: nothing for the reader to compare with
NoReader == [before |-> <<>>, seen |-> <<>>]

\* the FEE source holds data: a config and the dead map taken from it
HoldsFEE == mFEEConfig # NoObject /\ mDeadChannelMapFEE = mFEEConfig[1]

\* the IDC source holds data: a pad status map and the dead map extracted from it
HoldsIDC ==
  /\ mPadStatusMap # NoObject
  /\ mDeadChannelMapIDC = ROCLoop(CalDetAssign(FALSE), mPadStatusMap[1], flagAllNoneGood, 0)

InitDeadChannelMapCreator ==
  /\ mFEEConfig = NoObject
  /\ mPadStatusMap = NoObject
  /\ mObjectValidity = [t \in CDBTypes |-> DefaultValidity]
  /\ mDeadChannelMapFEE = CalDetAssign(FALSE)
  /\ mDeadChannelMapIDC = CalDetAssign(FALSE)
  /\ mDeadChannelMap = CalDetAssign(FALSE)
  /\ mSources = SourceAll
  /\ pc = "idle"
  /\ timeStamp = 0
  /\ last = Called("other")
  /\ thrown = FALSE
  /\ filled = {}
  /\ reader = NoReader
  /\ noted = <<>>
  /\ arg = <<>>

\* CalibdEdxDevice: the value of calibLast after the call op
\*   timeslice, runNumber, timeStamp   what run() found in the ProcessingContext
\*   matcher, obj, helper              the arguments of finaliseCCDB() and the return
\*                                     value of GRPGeomHelper::finaliseCCDB()
\*   stored                            has a run() stored run number and time stamp
\*                                     before this call
CalibCalled(op) == [op |-> op, timeslice |-> 0, runNumber |-> 0, timeStamp |-> 0,
                    matcher |-> "", obj |-> "", helper |-> FALSE, stored |-> FALSE]

\* the members after the constructor, before init()
InitCalibdEdxDevice ==
  /\ mRunNumber = 0
  /\ mTimeStampStart = 0
  /\ mDisableTimeGain = FALSE
  /\ mCustomdEdxFileName = ""
  /\ mCalib = "null"
  /\ sent = <<>>
  /\ calibLast = CalibCalled("constructor")

\* GeneratorFileOrCmd: the value of genLast after the call op
\*   ret            the value returned
\*   pid            mCmdPid when the call was made
\*   signalled      has the call called kill()
\*   afterSuccess   was the call before this one a terminateCmd() that returned true
\*   fromName       the argument of makeTemp()
\*   names, temporary   mFileNames and mTemporary when the call was made
\*   created        the name mkstemp() has made
GenCalled(op) == [op |-> op, ret |-> FALSE, pid |-> -1, signalled |-> FALSE,
                  afterSuccess |-> FALSE, fromName |-> FALSE, names |-> <<>>,
                  temporary |-> "", created |-> ""]

\* the members after the constructor; no child is forked yet
InitGeneratorFileOrCmd ==
  /\ mCmdPid = -1
  /\ mFileNames = <<>>
  /\ mTemporary = ""
  /\ children = <<>>
  /\ genLast = GenCalled("constructor")

\* the crates of the TOF
Crates == 0 .. (NumCrates - 1)

\* ReadoutWindowData after construction: "int mNdiaCrate[Geo::kNCrate] = {0}"; no
\* ordering key is computed yet
InitTOF ==
  /\ keys = <<>>
  /\ mNdiaCrate = [crate \in Crates |-> 0]
  /\ added = [crate \in Crates |-> 0]
  /\ emptied = [crate \in Crates |-> FALSE]

\* SplineUtil: the value of splineLast after the call op
SplineCalled(op, nXdim, nYdim, ret) ==
  [op |-> op, nXdim |-> nXdim, nYdim |-> nYdim, ret |-> ret]

\* SplineUtil has static methods only; no call is made yet
InitSplineUtil == splineLast = SplineCalled("none", 0, 0, 0)

Init ==
  /\ InitDeadChannelMapCreator
  /\ InitCalibdEdxDevice
  /\ InitGeneratorFileOrCmd
  /\ InitTOF
  /\ InitSplineUtil

\* load(timeStampOrRun): entry, timeStampOrRun = getTimeStamp(timeStampOrRun)
load(timeStampOrRun) ==
  /\ pc = "idle"
  /\ UNCHANGED <<noted, outsideDCM>>
  /\ pc' = "fee"
  /\ timeStamp' = getTimeStamp(timeStampOrRun)
  /\ last' = [Called("load") EXCEPT
                !.hadFEE = HoldsFEE,
                !.hadIDC = HoldsIDC,
                !.injected = IF arg # <<>> THEN <<mDeadChannelMapIDC>> ELSE <<>>,
                !.composed = (mDeadChannelMap =
                                finalizeDeadChannelMap(mDeadChannelMap, mSources,
                                                       mDeadChannelMapIDC,
                                                       mDeadChannelMapFEE))]
  /\ reader' = [before |-> <<mDeadChannelMap>>, seen |-> <<>>]
  /\ UNCHANGED <<mFEEConfig, mPadStatusMap, mObjectValidity, mDeadChannelMapFEE, thrown,
                 mDeadChannelMapIDC, mDeadChannelMap, mSources, filled>>
  /\ arg' = <<>>

\* mutant of loadStepFEE: the refresh of the FEE config also recomposes the final map
loadStepFEERecomposes(resp) ==
  /\ pc = "fee"
  /\ UNCHANGED <<noted, outsideDCM>>
  /\ LET r == loadFEEConfigViaRunInfoTS(mObjectValidity, mFEEConfig, mDeadChannelMapFEE,
                                        getTimeStamp(timeStamp), resp)
     IN /\ mFEEConfig' = r.config
        /\ mDeadChannelMapFEE' = r.deadMap
        /\ mDeadChannelMap' = finalizeDeadChannelMap(mDeadChannelMap, mSources,
                                                     mDeadChannelMapIDC, r.deadMap)
        /\ last' = [last EXCEPT !.fee = r.result,
                                !.changedFEE = (r.deadMap # mDeadChannelMapFEE)]
        /\ pc' = IF Threw(r.result) THEN "idle" ELSE "idc"
        /\ thrown' = (thrown \/ Threw(r.result))
        /\ filled' = IF r.result = "ok" THEN filled \cup {FEEConfig} ELSE filled
        /\ reader' = IF Threw(r.result) THEN NoReader ELSE reader
  /\ UNCHANGED <<mPadStatusMap, mObjectValidity, mDeadChannelMapIDC,
                 mSources, timeStamp>>
  /\ arg' = <<>>

\* load(): loadFEEConfigViaRunInfo(timeStampOrRun); an exception leaves load()
loadStepFEE(resp) ==
  /\ pc = "fee"
  /\ UNCHANGED <<noted, outsideDCM>>
  /\ LET r == loadFEEConfigViaRunInfoTS(mObjectValidity, mFEEConfig, mDeadChannelMapFEE,
                                        getTimeStamp(timeStamp), resp)
     IN /\ mFEEConfig' = r.config
        /\ mDeadChannelMapFEE' = r.deadMap
        /\ last' = [last EXCEPT !.fee = r.result,
                                !.changedFEE = (r.deadMap # mDeadChannelMapFEE)]
        /\ pc' = IF Threw(r.result) THEN "idle" ELSE "idc"
        /\ thrown' = (thrown \/ Threw(r.result))
        /\ filled' = IF r.result = "ok" THEN filled \cup {FEEConfig} ELSE filled
        /\ reader' = IF Threw(r.result) THEN NoReader ELSE reader
  /\ UNCHANGED <<mPadStatusMap, mObjectValidity, mDeadChannelMapIDC, mDeadChannelMap,
                 mSources, timeStamp>>
  /\ arg' = <<>>

\* load(): loadIDCPadFlags(timeStampOrRun); an exception leaves load()
loadStepIDC(resp) ==
  /\ pc = "idc"
  /\ UNCHANGED outsideDCM
  /\ LET r == loadIDCPadFlags(mObjectValidity, mPadStatusMap, mDeadChannelMapIDC,
                              getTimeStamp(timeStamp), resp)
     IN /\ mObjectValidity' = r.validity
        /\ mPadStatusMap' = r.padStatus
        /\ mDeadChannelMapIDC' = r.deadMap
        /\ last' = [last EXCEPT !.idc = r.result,
                                !.changedIDC = (r.deadMap # mDeadChannelMapIDC)]
        /\ pc' = IF Threw(r.result) THEN "idle" ELSE "fin"
        /\ thrown' = (thrown \/ Threw(r.result))
        /\ filled' = IF r.result = "ok" THEN filled \cup {IDCPadStatus} ELSE filled
        /\ noted' = IF r.result \in {"none", "ok"} THEN noted ELSE <<>>
        /\ reader' = IF Threw(r.result) THEN NoReader ELSE reader
  /\ UNCHANGED <<mFEEConfig, mDeadChannelMapFEE, mDeadChannelMap, mSources, timeStamp>>
  /\ arg' = <<>>

\* load(): finalizeDeadChannelMap(), and the return
loadStepFinalize ==
  /\ pc = "fin"
  /\ UNCHANGED <<noted, outsideDCM>>
  /\ LET d == finalizeDeadChannelMap(mDeadChannelMap, mSources, mDeadChannelMapIDC,
                                     mDeadChannelMapFEE)
     IN /\ mDeadChannelMap' = d
        /\ last' = [last EXCEPT !.changedDead = (d # mDeadChannelMap)]
  /\ pc' = "idle"
  /\ reader' = NoReader
  /\ UNCHANGED <<mFEEConfig, mPadStatusMap, mObjectValidity, mDeadChannelMapFEE, thrown,
                 mDeadChannelMapIDC, mSources, timeStamp, filled>>
  /\ arg' = <<>>

\* setSource(s)
setSource(s) ==
  /\ pc = "idle"
  /\ UNCHANGED <<noted, outsideDCM>>
  /\ mSources' = s
  /\ last' = Called("other")
  /\ UNCHANGED <<mFEEConfig, mPadStatusMap, mObjectValidity, mDeadChannelMapFEE, thrown,
                 mDeadChannelMapIDC, mDeadChannelMap, pc, timeStamp, filled, reader>>
  /\ arg' = <<>>

\* setDeadChannelMapIDCPadStatus(padStatusMap, mask) called by the user
callSetDeadChannelMapIDCPadStatus(padStatusMap, mask) ==
  /\ pc = "idle"
  /\ UNCHANGED <<noted, outsideDCM>>
  /\ LET m == setDeadChannelMapIDCPadStatus(mDeadChannelMapIDC, padStatusMap, mask)
     IN /\ mDeadChannelMapIDC' = m
        /\ last' = [Called("other") EXCEPT !.changedIDC = (m # mDeadChannelMapIDC)]
  /\ arg' = <<padStatusMap, mask>>
  /\ filled' = filled \cup {IDCPadStatus}
  /\ UNCHANGED <<mFEEConfig, mPadStatusMap, mObjectValidity, mDeadChannelMapFEE, thrown,
                 mDeadChannelMap, mSources, pc, timeStamp, reader>>

\* finalizeDeadChannelMap() called by the user
callFinalizeDeadChannelMap ==
  /\ pc = "idle"
  /\ UNCHANGED <<noted, outsideDCM>>
  /\ LET d == finalizeDeadChannelMap(mDeadChannelMap, mSources, mDeadChannelMapIDC,
                                     mDeadChannelMapFEE)
     IN /\ mDeadChannelMap' = d
        /\ last' = [Called("finalize") EXCEPT !.changedDead = (d # mDeadChannelMap),
                                               !.again = (last.op = "finalize")]
  /\ arg' = <<>>
  /\ UNCHANGED <<mFEEConfig, mPadStatusMap, mObjectValidity, mDeadChannelMapFEE, thrown,
                 mDeadChannelMapIDC, mSources, pc, timeStamp, filled, reader>>

Next ==
  \/ \E t \in Times \cup RunNumbers : load(t)
  \/ \E resp \in FEEResponses : loadStepFEE(resp)
  \/ \E resp \in (IF IDCNeedsFetch(mObjectValidity, getTimeStamp(timeStamp))
                    THEN IDCResponses ELSE {NoResponse}) : loadStepIDC(resp)
  \/ loadStepFinalize
  \/ \E s \in SourceSets : setSource(s)
  \/ callFinalizeDeadChannelMap

\* load(), setSource() and finalizeDeadChannelMap() in any order
Spec == Init /\ [][Next]_vars

\* the masks the user gives to the setter: flagGoodPad or flagAllNoneGood
InjectMasks == {1, flagAllNoneGood}

NextInject ==
  \/ \E t \in Times \cup RunNumbers : load(t)
  \/ \E resp \in FEEResponses : loadStepFEE(resp)
  \/ \E resp \in (IF IDCNeedsFetch(mObjectValidity, getTimeStamp(timeStamp))
                    THEN IDCResponses ELSE {NoResponse}) : loadStepIDC(resp)
  \/ loadStepFinalize
  \/ \E m \in StoredPadFlags, mask \in InjectMasks :
       callSetDeadChannelMapIDCPadStatus(m, mask)

\* load() and setDeadChannelMapIDCPadStatus() called on maps supplied by the user, in
\* any order, with every source in use
SpecInject == Init /\ [][NextInject]_vars

NextLocal ==
  \/ \E m \in FlagMaps, mask \in PadFlagValues : callSetDeadChannelMapIDCPadStatus(m, mask)
  \/ \E s \in SourceSets : setSource(s)
  \/ callFinalizeDeadChannelMap

\* the operations that do not ask the CCDB, on every pad status map and every mask
SpecLocal == Init /\ [][NextLocal]_vars

\* load(): finalizeDeadChannelMap(), its first statement
loadStepFinalizeReset ==
  /\ pc = "fin"
  /\ UNCHANGED <<noted, outsideDCM>>
  /\ mDeadChannelMap' = finalizeReset(mDeadChannelMap)
  /\ pc' = "finIDC"
  /\ UNCHANGED <<mFEEConfig, mPadStatusMap, mObjectValidity, mDeadChannelMapFEE, thrown,
                 mDeadChannelMapIDC, mSources, timeStamp, last, filled, reader, arg>>

\* load(): finalizeDeadChannelMap(), its second statement
loadStepFinalizeIDC ==
  /\ pc = "finIDC"
  /\ UNCHANGED <<noted, outsideDCM>>
  /\ mDeadChannelMap' = finalizeAddIDC(mDeadChannelMap, mSources, mDeadChannelMapIDC)
  /\ pc' = "finFEE"
  /\ UNCHANGED <<mFEEConfig, mPadStatusMap, mObjectValidity, mDeadChannelMapFEE, thrown,
                 mDeadChannelMapIDC, mSources, timeStamp, last, filled, reader, arg>>

\* load(): finalizeDeadChannelMap(), its third statement, and the return
loadStepFinalizeFEE ==
  /\ pc = "finFEE"
  /\ UNCHANGED <<noted, outsideDCM>>
  /\ LET d == finalizeAddFEE(mDeadChannelMap, mSources, mDeadChannelMapFEE)
     IN /\ mDeadChannelMap' = d
        /\ last' = [last EXCEPT !.changedDead = (d # reader.before[1])]
  /\ pc' = "idle"
  /\ reader' = NoReader
  /\ UNCHANGED <<mFEEConfig, mPadStatusMap, mObjectValidity, mDeadChannelMapFEE, thrown,
                 mDeadChannelMapIDC, mSources, timeStamp, filled, arg>>

\* getDeadChannelMap() called by another thread while load() runs: no lock is taken
\* by load(), the map is read as it is at that moment
readDeadChannelMap ==
  /\ pc # "idle"
  /\ UNCHANGED <<noted, outsideDCM>>
  /\ reader' = [reader EXCEPT !.seen = <<mDeadChannelMap>>]
  /\ UNCHANGED <<mFEEConfig, mPadStatusMap, mObjectValidity, mDeadChannelMapFEE, thrown,
                 mDeadChannelMapIDC, mDeadChannelMap, mSources, pc, timeStamp, last,
                 filled, arg>>

NextReader ==
  \/ \E t \in Times \cup RunNumbers : load(t)
  \/ \E resp \in FEEResponses : loadStepFEE(resp)
  \/ \E resp \in (IF IDCNeedsFetch(mObjectValidity, getTimeStamp(timeStamp))
                    THEN IDCResponses ELSE {NoResponse}) : loadStepIDC(resp)
  \/ loadStepFinalizeReset
  \/ loadStepFinalizeIDC
  \/ loadStepFinalizeFEE
  \/ readDeadChannelMap

\* load() statement by statement, with a thread that reads the final map meanwhile
SpecReader == Init /\ [][NextReader]_vars

\* an observer notes the range that the IDC refresh step of this load() has stored
\* with the object it fetched
noteWindow ==
  /\ pc = "fin" /\ last.idc = "ok"
  /\ UNCHANGED outsideDCM
  /\ noted' = <<mObjectValidity["CalIDCPadStatusMapA"]>>
  /\ UNCHANGED <<mFEEConfig, mPadStatusMap, mObjectValidity, mDeadChannelMapFEE, thrown,
                 mDeadChannelMapIDC, mDeadChannelMap, mSources, pc, timeStamp, last,
                 filled, reader, arg>>

NextWindow ==
  \/ \E t \in Times \cup RunNumbers : load(t)
  \/ \E resp \in FEEResponses : loadStepFEE(resp)
  \/ \E resp \in (IF IDCNeedsFetch(mObjectValidity, getTimeStamp(timeStamp))
                    THEN IDCResponses ELSE {NoResponse}) : loadStepIDC(resp)
  \/ loadStepFinalize
  \/ noteWindow

\* load() called again and again, with an observer of the ranges of the IDC source
SpecWindow == Init /\ [][NextWindow]_vars

----------------------------------------------------------------------------
(* load() as a function of the members and of the two responses of the CCDB *)

\* the members load() reads and writes; threw: has an exception left load()
Members == [validity |-> mObjectValidity, config |-> mFEEConfig,
            padStatus |-> mPadStatusMap, deadMapFEE |-> mDeadChannelMapFEE,
            deadMapIDC |-> mDeadChannelMapIDC, deadMap |-> mDeadChannelMap,
            threw |-> FALSE]

\* loadFEEConfigViaRunInfo(timeStampOrRun), not reached once an exception is thrown
RefreshFEE(m, ts, resp) ==
  IF m.threw THEN m
  ELSE LET r == loadFEEConfigViaRunInfoTS(m.validity, m.config, m.deadMapFEE,
                                          getTimeStamp(ts), resp)
       IN [m EXCEPT !.config = r.config, !.deadMapFEE = r.deadMap,
                    !.threw = Threw(r.result)]

\* loadIDCPadFlags(timeStampOrRun), not reached once an exception is thrown
RefreshIDC(m, ts, resp) ==
  IF m.threw THEN m
  ELSE LET r == loadIDCPadFlags(m.validity, m.padStatus, m.deadMapIDC,
                                getTimeStamp(ts), resp)
       IN [m EXCEPT !.validity = r.validity, !.padStatus = r.padStatus,
                    !.deadMapIDC = r.deadMap, !.threw = Threw(r.result)]

\* finalizeDeadChannelMap(), not reached once an exception is thrown
Compose(m, sources) ==
  IF m.threw THEN m
  ELSE [m EXCEPT !.deadMap = finalizeDeadChannelMap(m.deadMap, sources, m.deadMapIDC,
                                                    m.deadMapFEE)]

\* load() as the code has it: FEE config, IDC pad status, composition
loadFEEThenIDC(m, sources, ts, respFEE, respIDC) ==
  Compose(RefreshIDC(RefreshFEE(m, ts, respFEE), ts, respIDC), sources)

----------------------------------------------------------------------------
(* CalibdEdxDevice *)

\* the run numbers and time stamps processing_helpers finds for a time frame
CalibRunNumbers == 1 .. (NumRuns + 1)

StartTimes == 0 .. MaxStart

TimeSlices == 0 .. MaxSlice

\* GPU_global.dEdxCorrFile: not set, or the name of a file
FileNames == {"", "custom.root"}

\* what TFile::Open and Get<CalibdEdxCorrection> give for the custom file
FileOutcomes == {"notOpen", "noObject", "loaded"}

\* the matchers finaliseCCDB() is called with, and the objects that come with them
Matchers == {"TPC/TIMEGAIN/0", "other"}

TimeGainObjects == {"gainA", "gainB"}

\* init(): the configuration is read; the custom time gain is loaded from the file
\* when the time gain is not disabled and a file name is given
init(disableTimeGain, fileName, file) ==
  /\ mCalib = "null"
  /\ mCustomdEdxFileName' = fileName
  /\ mDisableTimeGain' = disableTimeGain
  /\ mCalib' = IF ~disableTimeGain /\ fileName # "" /\ file = "loaded"
                 THEN "custom" ELSE "default"
  /\ calibLast' = CalibCalled("init")
  /\ UNCHANGED <<mRunNumber, mTimeStampStart, sent, outsideCalib>>

\* mutant of finaliseCCDB: without the test of mCustomdEdxFileName.empty()
finaliseCCDBNoFileTest(matcher, obj, helper) ==
  /\ mCalib # "null"
  /\ mCalib' = IF helper THEN mCalib
               ELSE IF ~mDisableTimeGain /\ matcher = "TPC/TIMEGAIN/0"
                 THEN obj ELSE mCalib
  /\ calibLast' = [CalibCalled("finaliseCCDB") EXCEPT
                     !.matcher = matcher, !.obj = obj, !.helper = helper,
                     !.stored = calibLast.stored]
  /\ UNCHANGED <<mRunNumber, mTimeStampStart, mDisableTimeGain, mCustomdEdxFileName,
                 sent, outsideCalib>>

\* finaliseCCDB(matcher, obj); helper: GRPGeomHelper::finaliseCCDB(matcher, obj)
finaliseCCDB(matcher, obj, helper) ==
  /\ mCalib # "null"
  /\ mCalib' = IF helper THEN mCalib
               ELSE IF ~mDisableTimeGain /\ mCustomdEdxFileName = ""
                       /\ matcher = "TPC/TIMEGAIN/0"
                 THEN obj ELSE mCalib
  /\ calibLast' = [CalibCalled("finaliseCCDB") EXCEPT
                     !.matcher = matcher, !.obj = obj, !.helper = helper,
                     !.stored = calibLast.stored]
  /\ UNCHANGED <<mRunNumber, mTimeStampStart, mDisableTimeGain, mCustomdEdxFileName,
                 sent, outsideCalib>>

\* mutant of run: run number and time stamp are stored in every call
runStoresAlways(timeslice, runNumber, timeStampTF) ==
  /\ mCalib # "null"
  /\ mRunNumber' = runNumber
  /\ mTimeStampStart' = timeStampTF
  /\ calibLast' = [CalibCalled("run") EXCEPT
                     !.timeslice = timeslice, !.runNumber = runNumber,
                     !.timeStamp = timeStampTF, !.stored = TRUE]
  /\ UNCHANGED <<mDisableTimeGain, mCustomdEdxFileName, mCalib, sent, outsideCalib>>

\* run(pc): timeslice, run number and time stamp are those of the time frame
run(timeslice, runNumber, timeStampTF) ==
  /\ mCalib # "null"
  /\ IF mTimeStampStart = 0 \/ timeslice = 0
       THEN /\ mRunNumber' = runNumber
            /\ mTimeStampStart' = timeStampTF
       ELSE UNCHANGED <<mRunNumber, mTimeStampStart>>
  /\ calibLast' = [CalibCalled("run") EXCEPT
                     !.timeslice = timeslice, !.runNumber = runNumber,
                     !.timeStamp = timeStampTF,
                     !.stored = (calibLast.stored \/ mTimeStampStart = 0 \/ timeslice = 0)]
  /\ UNCHANGED <<mDisableTimeGain, mCustomdEdxFileName, mCalib, sent, outsideCalib>>

\* endOfStream(eos): sendOutput() with the run number in the meta data and the
\* validity starting at mTimeStampStart
endOfStream ==
  /\ mCalib # "null"
  /\ sent' = <<[runNumber |-> mRunNumber, startValidity |-> mTimeStampStart]>>
  /\ calibLast' = [CalibCalled("endOfStream") EXCEPT !.stored = calibLast.stored]
  /\ UNCHANGED <<mRunNumber, mTimeStampStart, mDisableTimeGain, mCustomdEdxFileName,
                 mCalib, outsideCalib>>

NextCalib ==
  \/ \E d \in BOOLEAN, f \in FileNames, o \in FileOutcomes : init(d, f, o)
  \/ \E m \in Matchers, o \in TimeGainObjects, h \in BOOLEAN : finaliseCCDB(m, o, h)
  \/ \E ts \in TimeSlices, r \in CalibRunNumbers, t \in StartTimes : run(ts, r, t)
  \/ endOfStream

\* the callbacks of the device in any order after init()
SpecCalib == Init /\ [][NextCalib]_vars

----------------------------------------------------------------------------
(* GeneratorFileOrCmd *)

\* the file names given to setFileNames()
ConfiguredNames == {"a.hepmc", "b.hepmc"}

\* the names mkstemp("generatorFifoXXXXXX") makes
TempNames == {"generatorFifo000001", "generatorFifo000002"}

\* fork() in the parent: the pid of the new child, one more than the children so far
NewPid == Len(children) + 1

\* executeCmdLine(cmd); forked: fork() has not returned -1. The parent records the
\* pid of the child with setCmdPid(pid), whatever mCmdPid held.
executeCmdLine(forked) ==
  /\ Len(children) < MaxChildren
  /\ IF forked
       THEN /\ mCmdPid' = NewPid
            /\ children' = Append(children, "running")
       ELSE UNCHANGED <<mCmdPid, children>>
  /\ genLast' = [GenCalled("executeCmdLine") EXCEPT !.ret = forked, !.pid = mCmdPid]
  /\ UNCHANGED <<mFileNames, mTemporary, outsideGen>>

\* mutant of terminateCmd: without "mCmdPid = -1"
terminateCmdNoReset(killed, waited) ==
  /\ IF mCmdPid = -1 THEN UNCHANGED children
     ELSE IF ~killed THEN UNCHANGED children
     ELSE children' = [children EXCEPT ![mCmdPid] = IF waited THEN "reaped" ELSE "killed"]
  /\ UNCHANGED mCmdPid
  /\ genLast' = [GenCalled("terminateCmd") EXCEPT
                   !.ret = (mCmdPid # -1 /\ killed /\ waited),
                   !.pid = mCmdPid,
                   !.signalled = (mCmdPid # -1),
                   !.afterSuccess = (genLast.op = "terminateCmd" /\ genLast.ret)]
  /\ UNCHANGED <<mFileNames, mTemporary, outsideGen>>

\* terminateCmd(); killed: kill(-mCmdPid, SIGKILL) has not returned -1; waited:
\* waitpid(mCmdPid, ...) has not returned -1
terminateCmd(killed, waited) ==
  /\ IF mCmdPid = -1 THEN UNCHANGED <<mCmdPid, children>>
     ELSE IF ~killed THEN UNCHANGED <<mCmdPid, children>>
     ELSE IF ~waited
       THEN /\ children' = [children EXCEPT ![mCmdPid] = "killed"]
            /\ UNCHANGED mCmdPid
     ELSE /\ children' = [children EXCEPT ![mCmdPid] = "reaped"]
          /\ mCmdPid' = -1
  /\ genLast' = [GenCalled("terminateCmd") EXCEPT
                   !.ret = (mCmdPid # -1 /\ killed /\ waited),
                   !.pid = mCmdPid,
                   !.signalled = (mCmdPid # -1),
                   !.afterSuccess = (genLast.op = "terminateCmd" /\ genLast.ret)]
  /\ UNCHANGED <<mFileNames, mTemporary, outsideGen>>

\* setFileNames(filenames): the names of the comma separated list are appended
setFileNames(names) ==
  /\ Len(mFileNames) + Len(names) <= MaxNames
  /\ mFileNames' = mFileNames \o names
  /\ genLast' = [GenCalled("setFileNames") EXCEPT !.names = mFileNames,
                                                   !.temporary = mTemporary]
  /\ UNCHANGED <<mCmdPid, mTemporary, children, outsideGen>>

\* mutant of makeTemp: without "mFileNames.erase(++mFileNames.begin(), mFileNames.end())"
makeTempKeepsNames(fromName, made, name) ==
  /\ IF fromName
       THEN IF mFileNames = <<>> THEN UNCHANGED <<mFileNames, mTemporary>>
            ELSE /\ UNCHANGED mFileNames
                 /\ mTemporary' = IF made THEN Head(mFileNames) ELSE mTemporary
       ELSE /\ mFileNames' = IF made THEN <<name>> ELSE <<>>
            /\ mTemporary' = IF made THEN name ELSE mTemporary
  /\ genLast' = [GenCalled("makeTemp") EXCEPT
                   !.ret = (made /\ (fromName => mFileNames # <<>>)),
                   !.fromName = fromName, !.names = mFileNames,
                   !.temporary = mTemporary, !.created = name]
  /\ UNCHANGED <<mCmdPid, children, outsideGen>>

\* makeTemp(fromName); made: the file could be created (std::ofstream, mkstemp);
\* name: the name mkstemp() makes
makeTemp(fromName, made, name) ==
  /\ IF fromName
       THEN IF mFileNames = <<>> THEN UNCHANGED <<mFileNames, mTemporary>>
            ELSE /\ mFileNames' = <<Head(mFileNames)>>
                 /\ mTemporary' = IF made THEN Head(mFileNames) ELSE mTemporary
       ELSE /\ mFileNames' = IF made THEN <<name>> ELSE <<>>
            /\ mTemporary' = IF made THEN name ELSE mTemporary
  /\ genLast' = [GenCalled("makeTemp") EXCEPT
                   !.ret = (made /\ (fromName => mFileNames # <<>>)),
                   !.fromName = fromName, !.names = mFileNames,
                   !.temporary = mTemporary, !.created = name]
  /\ UNCHANGED <<mCmdPid, children, outsideGen>>

\* the lists of names setFileNames() is given
NameLists == {<<n>> : n \in ConfiguredNames} \cup (ConfiguredNames \X ConfiguredNames)

NextGen ==
  \/ \E forked \in BOOLEAN : executeCmdLine(forked)
  \/ \E killed \in BOOLEAN, waited \in BOOLEAN : terminateCmd(killed, waited)
  \/ \E names \in NameLists : setFileNames(names)
  \/ \E fromName \in BOOLEAN, made \in BOOLEAN, name \in TempNames :
       makeTemp(fromName, made, name)

\* the calls on one generator in any order
SpecGen == Init /\ [][NextGen]_vars

----------------------------------------------------------------------------
(* TOF Digit *)

\* the values of the ULong64_t key
KeyRange == 2 ^ KeyBits

\* the channels and the bunch crossings the key is made for
ChannelRange == 2 ^ ChannelBits
BCRange == 2 ^ (KeyBits - ChannelBits)

\* the arguments given: one channel and one bunch crossing beyond the ranges
Channels == 0 .. ChannelRange
BCs == 0 .. BCRange
TDCs == 0 .. 1

\* mutant of getOrderingKey: the bunch crossing is shifted by one bit less
getOrderingKeyShortShift(channel, bc, tdc) ==
  (((bc * 2 ^ (ChannelBits - 1)) % KeyRange) + channel) % KeyRange

\* mutant of getOrderingKey: the tdc is added to the key
getOrderingKeyWithTDC(channel, bc, tdc) ==
  (((bc * 2 ^ ChannelBits) % KeyRange) + channel + tdc) % KeyRange

\* Digit::getOrderingKey(channel, bc, tdc): (bc << ChannelBits) + channel in KeyBits
\* bits, unsigned
getOrderingKey(channel, bc, tdc) ==
  (((bc * 2 ^ ChannelBits) % KeyRange) + channel) % KeyRange

\* a call of getOrderingKey; the last two calls are kept
callGetOrderingKey(channel, bc, tdc) ==
  /\ keys' = <<[channel |-> channel, bc |-> bc, tdc |-> tdc,
                key |-> getOrderingKey(channel, bc, tdc)]>>
              \o (IF keys = <<>> THEN <<>> ELSE <<keys[1]>>)
  /\ UNCHANGED <<mNdiaCrate, added, emptied, outsideTOF>>

NextDigit ==
  \E channel \in Channels, bc \in BCs, tdc \in TDCs : callGetOrderingKey(channel, bc, tdc)

\* keys computed for any arguments
SpecDigit == Init /\ [][NextDigit]_vars

----------------------------------------------------------------------------
(* TOF ReadoutWindowData *)

\* setEmptyCrate(crate)
setEmptyCrate(crate) ==
  /\ mNdiaCrate' = [mNdiaCrate EXCEPT ![crate] = -1]
  /\ added' = [added EXCEPT ![crate] = 0]
  /\ emptied' = [emptied EXCEPT ![crate] = TRUE]
  /\ UNCHANGED <<keys, outsideTOF>>

\* isEmptyCrate(crate)
isEmptyCrate(crate) == mNdiaCrate[crate] = -1

\* addedDiagnostic(crate)
addedDiagnostic(crate) ==
  /\ added[crate] < MaxDiagnostics
  /\ mNdiaCrate' = [mNdiaCrate EXCEPT ![crate] = @ + 1]
  /\ added' = [added EXCEPT ![crate] = @ + 1]
  /\ UNCHANGED <<keys, emptied, outsideTOF>>

\* getDiagnosticInCrate(crate)
getDiagnosticInCrate(crate) ==
  IF isEmptyCrate(crate) THEN 0 ELSE mNdiaCrate[crate]

NextReadoutWindow ==
  \/ \E crate \in Crates : setEmptyCrate(crate)
  \/ \E crate \in Crates : addedDiagnostic(crate)

\* setEmptyCrate() and addedDiagnostic() on the crates in any order
SpecReadoutWindow == Init /\ [][NextReadoutWindow]_vars

----------------------------------------------------------------------------
(* SplineUtil *)

\* the dimensions given: negative, 0 and positive
Dims == (-MaxDim) .. MaxDim

\* mutant of getSpec: the test of the two dimensions is made before that of nYdim
getSpecTestsDimsFirst(nXdim, nYdim) ==
  IF nXdim > 0 /\ nYdim > 0 THEN 1 ELSE (IF nYdim = 1 THEN 3 ELSE 2)

\* getSpec(nXdim, nYdim): (nYdim == 1) ? 3 : ((nXdim > 0 && nYdim > 0) ? 1 : 2)
getSpec(nXdim, nYdim) ==
  IF nYdim = 1 THEN 3 ELSE (IF nXdim > 0 /\ nYdim > 0 THEN 1 ELSE 2)

\* the if-chain kept in the comment of getSpec: each "return" ends the function
getSpecIfChain(nXdim, nYdim) ==
  LET afterFirstIf == IF nXdim > 0 /\ nYdim > 0 THEN 1 ELSE 2
  IN  IF nYdim = 1 THEN 3 ELSE afterFirstIf

\* getSpec(nYdim): return getSpec(1, nYdim)
getSpecY(nYdim) == getSpec(1, nYdim)

\* a call of getSpec(nXdim, nYdim)
callGetSpec(nXdim, nYdim) ==
  /\ splineLast' = SplineCalled("getSpec", nXdim, nYdim, getSpec(nXdim, nYdim))
  /\ UNCHANGED outsideSpline

\* a call of getSpec(nYdim)
callGetSpecY(nYdim) ==
  /\ splineLast' = SplineCalled("getSpecY", 1, nYdim, getSpecY(nYdim))
  /\ UNCHANGED outsideSpline

NextSpline ==
  \/ \E nXdim \in Dims, nYdim \in Dims : callGetSpec(nXdim, nYdim)
  \/ \E nYdim \in Dims : callGetSpecY(nYdim)

\* getSpec called with any dimensions
SpecSpline == Init /\ [][NextSpline]_vars

----------------------------------------------------------------------------
(* Vocabulary of the properties *)

\* a load() has ended: by its return or by an exception
LoadEnded == pc = "idle" /\ last.op = "load"

\* a load() has returned: it ended and no step threw
LoadReturned == LoadEnded /\ ~Threw(last.fee) /\ ~Threw(last.idc)

IDCEnabled == mSources \in {IDCPadStatus, SourceAll}

FEEEnabled == mSources \in {FEEConfig, SourceAll}

----------------------------------------------------------------------------
(* C1 *)

----------------------------------------------------------------------------
(* C2 *)

\* C2, in the runs without exception: a source that holds data keeps a payload object
\* in every step: mFEEConfig and mPadStatusMap, once fetched, never become null again.
C2_PayloadStaysHeld ==
  [][~thrown' => /\ HoldsFEE => mFEEConfig' # NoObject
                 /\ HoldsIDC => mPadStatusMap' # NoObject]_vars

----------------------------------------------------------------------------
(* C3 *)

\* C3, in the runs without exception: a refresh step whose fetch returned no object
\* leaves mObjectValidity as it was, and the source still needs a fetch at the same
\* time stamp.
C3_FailedFetchKeepsWindow ==
  [][~thrown' =>
       /\ (pc = "fee" /\ NoObjectReturned(last'.fee))
            => /\ mObjectValidity' = mObjectValidity
               /\ FEENeedsFetch(mObjectValidity', getTimeStamp(timeStamp))
       /\ (pc = "idc" /\ NoObjectReturned(last'.idc))
            => /\ mObjectValidity' = mObjectValidity
               /\ IDCNeedsFetch(mObjectValidity', getTimeStamp(timeStamp))]_vars

----------------------------------------------------------------------------
(* C4 *)

\* C4, in the runs without exception and without a failed fetch in the load() before:
\* when load() is entered right after a load() that returned, the window of a
\* successful fetch of that load() decides the fetch of this one. The CCDB returns for
\* a time stamp an object valid at that time stamp, so a load() at the time stamp of
\* the load() before fetches no source that load() fetched successfully; for the IDC
\* source, whose window the model lets the CCDB choose freely, the stored window
\* [Valid-From, Valid-Until) decides.
C4_ValidWindowMeansNoFetch ==
  [][(pc = "idle" /\ pc' = "fee" /\ LoadReturned /\ ~thrown
        /\ ~NoObjectReturned(last.fee) /\ ~NoObjectReturned(last.idc))
       => /\ (last.fee = "ok" /\ timeStamp' = timeStamp)
               => ~FEENeedsFetch(mObjectValidity', timeStamp')
          /\ last.idc = "ok"
               => LET w == mObjectValidity["CalIDCPadStatusMapA"]
                  IN IDCNeedsFetch(mObjectValidity', timeStamp')
                       <=> ~(w.startvalidity <= timeStamp' /\ timeStamp' < w.endvalidity)]_vars

----------------------------------------------------------------------------
(* C5 *)

\* C5: when load() has returned, the final dead map is true on a pad exactly when
\* the dead map of an enabled source is true on that pad.
C5_FinalMapIsOrOfEnabled ==
  LoadReturned =>
    \A p \in Pads :
      mDeadChannelMap[p] <=> \/ IDCEnabled /\ mDeadChannelMapIDC[p]
                             \/ FEEEnabled /\ mDeadChannelMapFEE[p]

\* C5 witness: load() returned with only the FEE source enabled; the final map lost
\* an entry it had before and differs from the IDC map, which is not empty
C5_Witness ==
  /\ LoadReturned
  /\ mSources = FEEConfig
  /\ last.changedDead
  /\ \E p \in Pads : mDeadChannelMapIDC[p] /\ ~mDeadChannelMap[p]
  /\ \E p \in Pads : mDeadChannelMapFEE[p] /\ mDeadChannelMap[p]

----------------------------------------------------------------------------
(* C6 *)

\* C6: no load() ends by an exception: a response that lacks a meta data key the code
\* reads ends the refresh step like a response without object, by a return.
C6_MissingMetaDataIsNotFatal == LoadEnded => LoadReturned

----------------------------------------------------------------------------
(* C7 *)

\* C7: when a load() has ended in which a fetch returned no object, the other source
\* was dealt with (fetched, or found valid at the time stamp) and the final dead map
\* is the composition of the maps held.
C7_FailedFetchDoesNotStopLoad ==
  (LoadEnded /\ (NoObjectReturned(last.fee) \/ NoObjectReturned(last.idc))) =>
    /\ NoObjectReturned(last.fee)
         => (Fetched(last.idc) \/ ~IDCNeedsFetch(mObjectValidity, getTimeStamp(timeStamp)))
    /\ \A p \in Pads :
         mDeadChannelMap[p] <=> \/ IDCEnabled /\ mDeadChannelMapIDC[p]
                                \/ FEEEnabled /\ mDeadChannelMapFEE[p]

----------------------------------------------------------------------------
(* C8 *)

\* C8, for the IDC source, in the runs without exception: the stored window, the
\* payload and the dead map change only together, in the refresh step of a successful
\* fetch.
C8_WindowChangesWithPayload ==
  [][(/\ ~thrown'
      /\ \/ mObjectValidity'["CalIDCPadStatusMapA"] # mObjectValidity["CalIDCPadStatusMapA"]
         \/ mPadStatusMap' # mPadStatusMap
         \/ mDeadChannelMapIDC' # mDeadChannelMapIDC)
       => (pc = "idc" /\ last'.idc = "ok")]_vars

----------------------------------------------------------------------------
(* C9 *)

\* is bit b (0 = lowest) set in the flag value x
BitSet(x, b) == (x \div Pow2(b)) % 2 = 1

\* C9: after setDeadChannelMapIDCPadStatus(padStatusMap, mask) the IDC dead map is true
\* on a pad exactly when the pad's flag value and the mask have a bit in common,
\* whatever the map held before; with mask 0 it is false everywhere, with every bit
\* in the mask it is true exactly on the pads with a non-zero flag value.
C9_MaskExtraction ==
  arg # <<>> =>
    LET padStatusMap == arg[1]
        mask == arg[2]
    IN /\ \A p \in Pads :
            mDeadChannelMapIDC[p]
              <=> \E b \in 0 .. (FlagBits - 1) : BitSet(padStatusMap[p], b) /\ BitSet(mask, b)
       /\ mask = 0 => \A p \in Pads : ~mDeadChannelMapIDC[p]
       /\ mask = Pow2(FlagBits) - 1
            => \A p \in Pads : mDeadChannelMapIDC[p] <=> padStatusMap[p] # 0

\* C9 witness: an extraction with a one-bit mask gave true on a pad and false on
\* another pad whose flag value is not zero, and changed the map held before
C9_Witness ==
  /\ arg # <<>>
  /\ arg[2] = 1
  /\ last.changedIDC
  /\ \E p, q \in Pads : /\ mDeadChannelMapIDC[p] /\ arg[1][p] = 3
                        /\ ~mDeadChannelMapIDC[q] /\ arg[1][q] = 2

----------------------------------------------------------------------------
(* C10 *)

\* the composition with the two sources taken in the other order: FEE, then IDC
ComposeFEEThenIDC(sources, deadMapIDC, deadMapFEE) ==
  LET reset == CalDetAssign(FALSE)
      withFEE == IF useSource(sources, FEEConfig)
                   THEN CalDetPlusEq(reset, deadMapFEE) ELSE reset
  IN IF useSource(sources, IDCPadStatus) THEN CalDetPlusEq(withFEE, deadMapIDC) ELSE withFEE

\* a composition has just been made: by load() or by finalizeDeadChannelMap()
JustComposed == LoadReturned \/ (pc = "idle" /\ last.op = "finalize")

\* C10: the final dead map that finalizeDeadChannelMap() composes (IDC, then FEE) is
\* the one the other order (FEE, then IDC) gives.
C10_OrderOfSources ==
  JustComposed =>
    mDeadChannelMap = ComposeFEEThenIDC(mSources, mDeadChannelMapIDC, mDeadChannelMapFEE)

\* C10 witness: a composition of both sources, whose dead maps are not empty and differ
C10_Witness ==
  /\ JustComposed
  /\ mSources = SourceAll
  /\ \E p, q \in Pads : /\ mDeadChannelMapIDC[p] /\ ~mDeadChannelMapFEE[p]
                        /\ mDeadChannelMapFEE[q] /\ ~mDeadChannelMapIDC[q]
                        /\ mDeadChannelMap[p] /\ mDeadChannelMap[q]

----------------------------------------------------------------------------
(* C11 *)

\* C11: a finalizeDeadChannelMap() that runs right after a finalizeDeadChannelMap(),
\* with nothing called between the two, leaves mDeadChannelMap as the first one left it.
C11_ComposingTwiceIsComposingOnce ==
  [][(pc = "idle" /\ last.op = "finalize" /\ last'.op = "finalize")
       => mDeadChannelMap' = mDeadChannelMap]_vars

\* finalizeDeadChannelMap() has run twice in a row on maps with dead channels, and the
\* second run has left the final map as the first one had composed it
C11_Witness ==
  /\ pc = "idle" /\ last.op = "finalize" /\ last.again /\ ~last.changedDead
  /\ mSources = SourceAll
  /\ \E p \in Pads : mDeadChannelMapIDC[p] /\ mDeadChannelMap[p]
  /\ \E p \in Pads : mDeadChannelMapFEE[p] /\ mDeadChannelMap[p]

----------------------------------------------------------------------------
(* C12 *)

\* C12: after a composition (the end of load(), or finalizeDeadChannelMap()) made with
\* no source in use, mDeadChannelMap is false on every pad.
C12_NoSourceGivesAllFalse ==
  (JustComposed /\ mSources = SourceNone) => \A p \in Pads : ~mDeadChannelMap[p]

\* a composition with no source in use has cleared a final map that had dead channels,
\* while both source maps have dead channels
C12_Witness ==
  /\ JustComposed /\ mSources = SourceNone /\ last.changedDead
  /\ \E p \in Pads : mDeadChannelMapIDC[p]
  /\ \E p \in Pads : mDeadChannelMapFEE[p]

----------------------------------------------------------------------------
(* C13 *)

\* C13: after a composition made with exactly one source in use, mDeadChannelMap is
\* that source's dead map, pad by pad.
C13_OneSourceGivesItsMap ==
  JustComposed =>
    /\ mSources = IDCPadStatus => mDeadChannelMap = mDeadChannelMapIDC
    /\ mSources = FEEConfig => mDeadChannelMap = mDeadChannelMapFEE

\* a composition with the IDC source alone has run while the FEE map has a dead channel
\* that the IDC map has not
C13_Witness ==
  /\ JustComposed /\ mSources = IDCPadStatus /\ last.changedDead
  /\ \E p \in Pads : mDeadChannelMapFEE[p] /\ ~mDeadChannelMapIDC[p] /\ ~mDeadChannelMap[p]
  /\ \E p \in Pads : mDeadChannelMapIDC[p] /\ mDeadChannelMap[p]

----------------------------------------------------------------------------
(* C14 *)

\* C14: after a composition, a source in use whose dead map was never set (no fetch of
\* it returned an object, the setter was never called) adds no dead channel: the final
\* map is the OR of the other source's map, if that one is in use, and all false if not.
C14_UnfilledSourceAddsNothing ==
  JustComposed =>
    /\ (FEEEnabled /\ FEEConfig \notin filled)
         => mDeadChannelMap = (IF IDCEnabled THEN mDeadChannelMapIDC ELSE AllFalse)
    /\ (IDCEnabled /\ IDCPadStatus \notin filled)
         => mDeadChannelMap = (IF FEEEnabled THEN mDeadChannelMapFEE ELSE AllFalse)

\* a load() in which the fetch of the FEE config failed has returned, the FEE source
\* never had a map, the IDC source has one, and both are in use
C14_Witness ==
  /\ LoadReturned /\ mSources = SourceAll /\ last.fee = "nullLogged"
  /\ FEEConfig \notin filled /\ IDCPadStatus \in filled
  /\ \E p \in Pads : mDeadChannelMap[p]

----------------------------------------------------------------------------
(* C15 *)

C15_WitnessAtEnd ==
  /\ LoadEnded /\ last.idc = "nullThrew"
  /\ mObjectValidity["CalIDCPadStatusMapA"].endvalidity = getTimeStamp(timeStamp)

----------------------------------------------------------------------------
(* C16 *)

\* C16: when a load() has ended, each source whose stored range is still the default
\* range has had its fetch attempted in that load().
C16_UnsetWindowMeansFetch ==
  LoadEnded =>
    /\ mObjectValidity["ConfigRunInfo"] = DefaultValidity => Fetched(last.fee)
    /\ mObjectValidity["CalIDCPadStatusMapA"] = DefaultValidity => Fetched(last.idc)

\* the part of C16 on the range alone: the default range covers no time stamp
C16_DefaultRangeIsStale ==
  (pc # "idle") =>
    /\ mObjectValidity["ConfigRunInfo"] = DefaultValidity
         => FEENeedsFetch(mObjectValidity, getTimeStamp(timeStamp))
    /\ mObjectValidity["CalIDCPadStatusMapA"] = DefaultValidity
         => IDCNeedsFetch(mObjectValidity, getTimeStamp(timeStamp))

----------------------------------------------------------------------------
(* C18 *)

\* C18: in every load(), a refresh step whose fetch failed (no object returned, or a
\* key missing in the meta data) has logged an error.
C18_FailedFetchIsLogged ==
  /\ (NoObjectReturned(last.fee) \/ Threw(last.fee)) => last.fee = "nullLogged"
  /\ (NoObjectReturned(last.idc) \/ Threw(last.idc)) => last.idc = "nullLogged"

----------------------------------------------------------------------------
(* C17 *)

\* load() with the two refresh steps in the opposite order
loadIDCThenFEE(m, sources, ts, respFEE, respIDC) ==
  Compose(RefreshFEE(RefreshIDC(m, ts, respIDC), ts, respFEE), sources)

\* the members C17 compares: the maps of the sources, the ranges, the final map
Outcome(m) == <<m.deadMapFEE, m.deadMapIDC, m.validity, m.deadMap>>

\* C17: from every state in which load() is entered and for every pair of responses of
\* the CCDB, load() leaves the same source maps, ranges and final map as a load() that
\* refreshes the IDC pad status first and the FEE config second.
C17_RefreshOrderIsIrrelevant ==
  (pc = "fee") =>
    \A respFEE \in FEEResponses, respIDC \in IDCResponses :
      Outcome(loadFEEThenIDC(Members, mSources, timeStamp, respFEE, respIDC))
        = Outcome(loadIDCThenFEE(Members, mSources, timeStamp, respFEE, respIDC))

\* the same for the responses on which no meta.at(...) throws
C17_RefreshOrderWithoutException ==
  (pc = "fee") =>
    \A respFEE \in FEEResponses, respIDC \in IDCResponses :
      LET a == loadFEEThenIDC(Members, mSources, timeStamp, respFEE, respIDC)
          b == loadIDCThenFEE(Members, mSources, timeStamp, respFEE, respIDC)
      IN (~a.threw /\ ~b.threw) => Outcome(a) = Outcome(b)

----------------------------------------------------------------------------
(* C19 *)

----------------------------------------------------------------------------
(* C20 *)

\* C20: when a load() entered right after a call of setDeadChannelMapIDCPadStatus() has
\* returned and the IDC source is in use, every pad the setter had marked dead is dead
\* in the final map.
C20_InjectedMapSurvivesLoad ==
  (LoadReturned /\ last.injected # <<>> /\ IDCEnabled) =>
    \A p \in Pads : last.injected[1][p] => mDeadChannelMap[p]

----------------------------------------------------------------------------
(* C21 *)

\* C21: in a load() whose refresh step of a source has taken over a fetched object,
\* that source's dead map is from then on the map of the new object alone: the
\* extraction with flagAllNoneGood of the new pad flags for the IDC source, the
\* config's own dead-channel map for the FEE source.
C21_MapIsThatOfNewPayload ==
  (last.op = "load") =>
    /\ last.fee = "ok" => (mFEEConfig # NoObject /\ mDeadChannelMapFEE = mFEEConfig[1])
    /\ last.idc = "ok" =>
         /\ mPadStatusMap # NoObject
         /\ \A p \in Pads :
              mDeadChannelMapIDC[p] <=> BitAnd(mPadStatusMap[1][p], flagAllNoneGood) # 0

\* a load() has returned whose IDC fetch has replaced a map with a dead pad that the
\* new pad flags do not flag
C21_Witness ==
  /\ LoadReturned /\ last.idc = "ok" /\ last.changedIDC
  /\ last.injected # <<>>
  /\ \E p \in Pads : last.injected[1][p] /\ ~mDeadChannelMapIDC[p]

----------------------------------------------------------------------------
(* C22 *)

----------------------------------------------------------------------------
(* C23 *)

\* C23: the FEE refresh step changes neither mPadStatusMap, mDeadChannelMapIDC nor the
\* ranges, the IDC refresh step changes neither mFEEConfig nor mDeadChannelMapFEE, and
\* mDeadChannelMap changes in finalizeDeadChannelMap() alone.
C23_RefreshWritesItsOwnSlot ==
  [][/\ pc = "fee" => /\ mPadStatusMap' = mPadStatusMap
                      /\ mDeadChannelMapIDC' = mDeadChannelMapIDC
                      /\ mObjectValidity' = mObjectValidity
     /\ pc = "idc" => /\ mFEEConfig' = mFEEConfig
                      /\ mDeadChannelMapFEE' = mDeadChannelMapFEE
     /\ mDeadChannelMap' # mDeadChannelMap
          => (pc = "fin" \/ (pc = "idle" /\ last'.op = "finalize"))]_vars

\* the FEE refresh step has put a new map in mDeadChannelMapFEE while the IDC source
\* holds data, and the final map is not yet recomposed
C23_Witness ==
  /\ pc = "idc" /\ last.fee = "ok" /\ last.changedFEE /\ HoldsIDC
  /\ mDeadChannelMap # finalizeDeadChannelMap(mDeadChannelMap, mSources,
                                              mDeadChannelMapIDC, mDeadChannelMapFEE)

----------------------------------------------------------------------------
(* C24 *)

----------------------------------------------------------------------------
(* C25 *)

\* C25: after init(), the calibration input changes only in a finaliseCCDB() for
\* TPC/TIMEGAIN made while the time gain is not disabled and no custom file name is
\* set; it is then the object of that call.
C25_TimeGainOnlyWithoutCustomFile ==
  [][(mCalib # "null" /\ mCalib' # mCalib)
       => /\ calibLast'.op = "finaliseCCDB"
          /\ calibLast'.matcher = "TPC/TIMEGAIN/0"
          /\ ~mDisableTimeGain /\ mCustomdEdxFileName = ""
          /\ mCalib' = calibLast'.obj]_vars

\* a finaliseCCDB() for TPC/TIMEGAIN that GRPGeomHelper has not taken has left the
\* custom time gain of init() in place
C25_Witness ==
  /\ calibLast.op = "finaliseCCDB" /\ calibLast.matcher = "TPC/TIMEGAIN/0"
  /\ ~calibLast.helper
  /\ ~mDisableTimeGain /\ mCustomdEdxFileName # "" /\ mCalib = "custom"

----------------------------------------------------------------------------
(* C26 *)

\* C26: a terminateCmd() made while mCmdPid is -1 returns false and calls no kill();
\* one that returns true has killed and waited for the recorded child and has set
\* mCmdPid to -1; one made right after one that returned true returns false.
C26_TerminateResetsPid ==
  (genLast.op = "terminateCmd") =>
    /\ genLast.pid = -1 => (~genLast.ret /\ ~genLast.signalled)
    /\ genLast.ret => (genLast.signalled /\ children[genLast.pid] = "reaped"
                         /\ mCmdPid = -1)
    /\ genLast.afterSuccess => ~genLast.ret

\* a terminateCmd() right after one that has killed a child has returned false
C26_Witness ==
  /\ genLast.op = "terminateCmd" /\ genLast.afterSuccess /\ ~genLast.ret
  /\ \E pid \in DOMAIN children : children[pid] = "reaped"

----------------------------------------------------------------------------
(* C27 *)

\* C27: whenever mCmdPid is -1, every child forked so far by executeCmdLine() has been
\* killed by terminateCmd().
C27_NoChildLeftUntracked ==
  (mCmdPid = -1) => \A pid \in DOMAIN children : children[pid] # "running"

----------------------------------------------------------------------------
(* C28 *)

\* C28: after a makeTemp() that has returned true, mFileNames holds one name, which is
\* mTemporary: the first name of the list before with fromName, the name made by
\* mkstemp() without; after a makeTemp(true) that has returned false on an empty list,
\* mTemporary is what it was.
C28_MakeTempLeavesOneName ==
  (genLast.op = "makeTemp") =>
    /\ genLast.ret =>
         /\ Len(mFileNames) = 1 /\ mFileNames[1] = mTemporary
         /\ genLast.fromName => (genLast.names # <<>> /\ mTemporary = genLast.names[1])
         /\ ~genLast.fromName => mTemporary = genLast.created
    /\ (~genLast.ret /\ genLast.fromName /\ genLast.names = <<>>)
         => mTemporary = genLast.temporary

\* a makeTemp(true) has returned true on a list of two different names, with another
\* temporary name held before
C28_Witness ==
  /\ genLast.op = "makeTemp" /\ genLast.ret /\ genLast.fromName
  /\ Len(genLast.names) > 1 /\ genLast.names[1] # genLast.names[2]
  /\ genLast.temporary # "" /\ genLast.temporary # mTemporary

----------------------------------------------------------------------------
(* C29 *)

\* the arguments of a call are in the ranges the key is made for
InKeyRanges(call) == call.channel < ChannelRange /\ call.bc < BCRange

\* (bc, channel) of call a is lexicographically smaller than that of call b
LexLess(a, b) == a.bc < b.bc \/ (a.bc = b.bc /\ a.channel < b.channel)

\* C29: for two calls with channels below 2^ChannelBits and bunch crossings below
\* 2^(KeyBits - ChannelBits), the key of one is smaller than the key of the other
\* exactly when its (bc, channel) is lexicographically smaller, the keys are equal only
\* when bc and channel are equal, and the tdc has no influence on the key.
C29_KeyOrdersByBCThenChannel ==
  (Len(keys) = 2 /\ InKeyRanges(keys[1]) /\ InKeyRanges(keys[2])) =>
    /\ keys[1].key < keys[2].key <=> LexLess(keys[1], keys[2])
    /\ keys[1].key = keys[2].key
         <=> (keys[1].bc = keys[2].bc /\ keys[1].channel = keys[2].channel)
    /\ \A tdc \in TDCs :
         getOrderingKey(keys[1].channel, keys[1].bc, tdc) = keys[1].key

\* two calls in the ranges, the one with the larger channel has the smaller bunch
\* crossing and the smaller key, and their tdc differ
C29_Witness ==
  /\ Len(keys) = 2 /\ InKeyRanges(keys[1]) /\ InKeyRanges(keys[2])
  /\ keys[1].channel > keys[2].channel /\ keys[1].bc < keys[2].bc
  /\ keys[1].key < keys[2].key /\ keys[1].tdc # keys[2].tdc
  /\ keys[2].bc = BCRange - 1

----------------------------------------------------------------------------
(* C30 *)

\* C30: for every crate, getDiagnosticInCrate() is the number of addedDiagnostic()
\* calls made since the last setEmptyCrate() or since construction, and isEmptyCrate()
\* is true exactly when setEmptyCrate() has been called and no addedDiagnostic() has
\* followed the last one.
C30_DiagnosticsAreCounted ==
  \A crate \in Crates :
    /\ getDiagnosticInCrate(crate) = added[crate]
    /\ isEmptyCrate(crate) <=> (emptied[crate] /\ added[crate] = 0)

----------------------------------------------------------------------------
(* C31 *)

\* C31: getSpec(nXdim, nYdim) returns 3 when nYdim is 1, whatever nXdim is, 1 when
\* nYdim is not 1 and both dimensions are positive, and 2 otherwise; it never returns
\* 0; it returns what the if-chain kept in its comment returns; and getSpec(nYdim)
\* returns what getSpec(1, nYdim) returns.
C31_GetSpecNumbers ==
  /\ (splineLast.op = "getSpec") =>
       /\ splineLast.nYdim = 1 => splineLast.ret = 3
       /\ (splineLast.nYdim # 1 /\ splineLast.nXdim > 0 /\ splineLast.nYdim > 0)
            => splineLast.ret = 1
       /\ (splineLast.nYdim # 1 /\ ~(splineLast.nXdim > 0 /\ splineLast.nYdim > 0))
            => splineLast.ret = 2
       /\ splineLast.ret # 0
       /\ splineLast.ret = getSpecIfChain(splineLast.nXdim, splineLast.nYdim)
  /\ (splineLast.op = "getSpecY") =>
       /\ splineLast.ret = getSpec(1, splineLast.nYdim)
       /\ splineLast.ret = (IF splineLast.nYdim = 1 THEN 3
                             ELSE IF splineLast.nYdim > 0 THEN 1 ELSE 2)

\* getSpec has returned 3 for nYdim = 1 with a positive nXdim, where both dimensions
\* are positive as well
C31_Witness ==
  /\ splineLast.op = "getSpec" /\ splineLast.nYdim = 1 /\ splineLast.nXdim > 1
  /\ splineLast.ret = 3

====
